---- MODULE Spec2Model ----
(***************************************************************************)
(* ContentFlow: discovery -> download -> extraction pipeline over Redis    *)
(* sorted-set queues (QueueManager), a dedup set and the articles_status   *)
(* table (DatabaseManager).                                                *)
(*                                                                         *)
(* Time is the integer number of seconds of time.time().  A single queue   *)
(* or store call takes no time: the clock advances between calls only.     *)
(* hashlib.md5(f"{id}:{url}") is modelled as the pair <<id, url>>.         *)
(* A queue member is the JSON text of a task; its created_at microsecond   *)
(* stamp makes the texts of two pushes distinct even when every other      *)
(* field agrees, which the field copy stands for.                          *)
(***************************************************************************)
EXTENDS Integers, Sequences, FiniteSets, TLC

-----------------------------------------------------------------------------
(* Bounds of the model *)

MaxTicks == 4
MaxDedupTicks == 3
MaxCopies == 2
MaxAttempts == 5
MaxQueue == 2
MaxQueueTicks == 2
MaxFailed == 4
MaxFeed == 2
DayStep == 100000
HalfMonthStep == 1296000
HighPriority == 90
MaxTasks == 2
BatchSize == 2
MaxStarts == 3
MaxCleanups == 2
MaxCalls == 3

(* Program constants *)

MAX_DOWNLOAD_RETRIES == 3
DEFAULT_MAX_RETRIES == 3
PRIORITY_WEIGHT == 1000
BACKOFF_BASE == 60
BACKOFF_CAP == 3600
EXPIRED_AGE == 86400
DEDUP_TTL == 2592000
FILE_MAX_AGE == 2592000
MAX_EXTRACTION_RETRIES == 3

-----------------------------------------------------------------------------
(* Inputs *)

Ids == {"a1", "a2"}
NoRow == [discovery_status |-> "absent"]

\* Articles the feed can return; the last one has no id and is rejected.
FeedItems ==
    { [id |-> "a1", url |-> "u1"], [id |-> "a2", url |-> "u2"],
      [id |-> "", url |-> "u1"] }

Feeds(n) == UNION { [1..k -> FeedItems] : k \in 1..n }

Runners == {"sched", "http"}
Workers == {"dl", "dl2", "ex"}
DownloadWorkers == {"dl", "dl2"}
SchedThreads == {"t1", "t2"}
JobIds == 1..MaxStarts
Priorities == {0, HighPriority}

VARIABLES
    now,        \* time.time()
    ticks,      \* number of clock steps taken
    dupSet,     \* members of the Redis set duplicate_check
    dupExpire,  \* time at which duplicate_check expires (0: no expiry set)
    rows,       \* articles_status: id -> row, or NoRow
    downloadQ,  \* sorted set download_tasks: set of scored tasks
    parseQ,     \* sorted set parse_tasks
    failedQ,    \* list failed_tasks
    html,       \* ids with html/{id}.html on disk
    text,       \* ids with text/{id}.txt on disk
    pc,         \* discovery runner -> position in run_discovery
    run,        \* discovery runner -> run_stats and loop state
    wpc,        \* worker -> position in the batch loop
    wtask,      \* worker -> the task it popped
    pushed,     \* history: id -> tasks pushed for it by discovery or a caller
    mtime,      \* <<directory, id>> -> time the file was last written
    wres,       \* worker -> result['success'] of the task it handled last
    offset,     \* tasks_processed of the extraction batch under way
    attempts,   \* history: id -> times a download task of id was popped
    addedAt,    \* history: dedup key -> time it was last added to the set
                \* that exists now (-1: not added to it)
    statsTable, \* processing_stats: the row [date, discovered_count] of the
                \* latest date
    article,    \* the raw article handed to _parse_publish_time
    parsed,     \* what _parse_publish_time returned for it
    is_running, \* DownloadService.is_running
    loop,       \* download thread -> position in worker_loop
    processed,  \* download thread -> run_stats['processed'] of its batch
    sched_running, \* DiscoveryScheduler.is_running
    jobs,       \* schedule.jobs: the registered periodic jobs
    due,        \* the registered jobs whose next run time has come
    sloop,      \* scheduler thread -> position in _scheduler_loop
    sjob,       \* scheduler thread -> the job it is running (0: none)
    spc,        \* the caller of start(): "idle", or in the immediate run
    nstarts,    \* jobs registered so far
    fired,      \* history: job -> discovery runs begun for its due time
    last_cleanup, \* AutoQueueCleaner.last_cleanup: [time, n], the n-th
                \* cleanup (time -1, n 0: None)
    pushRet,    \* the last call of push_download_task and what it returned
    successful, \* download thread -> run_stats['successful'] of its batch
    failed      \* download thread -> run_stats['failed'] of its batch

vars == <<now, ticks, dupSet, dupExpire, rows, downloadQ, parseQ, failedQ,
          html, text, mtime, pc, run, wpc, wtask, wres, offset, pushed,
          attempts, addedAt, statsTable, article, parsed, is_running, loop,
          processed, sched_running, jobs, due, sloop, sjob, spc, nstarts,
          fired, last_cleanup, pushRet, successful, failed>>

storeVars == <<dupSet, dupExpire, rows, addedAt>>
queueVars == <<downloadQ, parseQ, failedQ>>
fileVars == <<html, text, mtime>>
discVars == <<pc, run, pushed>>
workVars == <<wpc, wtask, wres, offset, attempts>>
clockVars == <<now, ticks>>
statVars == <<statsTable>>
timeVars == <<article, parsed>>
superVars == <<is_running, loop, processed>>
schedVars == <<sched_running, jobs, due, sloop, sjob, spc, nstarts, fired>>
opsVars == <<last_cleanup, pushRet, successful, failed>>
svcVars == <<statVars, timeVars, superVars, schedVars, opsVars>>

Keys == { <<i.id, i.url>> : i \in FeedItems }
Files == {"html", "text"} \X Ids
NoTask == [id |-> "", priority |-> 0, retry_count |-> 0, source |-> "none",
           created |-> 0, score |-> 0, copy |-> 0]
NoCall == [n |-> 0, id |-> "", has_id |-> FALSE, has_url |-> FALSE,
           has_priority |-> FALSE, priority |-> 0, answer |-> "none",
           ret |-> "none"]
IdleRun == [kind |-> "none", feed |-> <<>>, i |-> 1, discovered |-> 0,
            new |-> 0, dup |-> 0, err |-> 0, res |-> "none", seen |-> {},
            healthy |-> TRUE]

Max(a, b) == IF a >= b THEN a ELSE b
Min(a, b) == IF a <= b THEN a ELSE b

RECURSIVE Pow2(_)
Pow2(n) == IF n <= 0 THEN 1 ELSE 2 * Pow2(n - 1)

-----------------------------------------------------------------------------
(* QueueManager *)

\* push_download_task / push_parse_task: the score of a new task.
NewTaskScore(t, priority) == t - priority * PRIORITY_WEIGHT

\* push_download_task: the task it builds from article_data; retry_count is
\* always written as 0 and source as 'discovery'.
DownloadTask(id, priority, t) ==
    [id |-> id, priority |-> priority, retry_count |-> 0,
     source |-> "discovery", created |-> t,
     score |-> NewTaskScore(t, priority), copy |-> 1]

\* push_parse_task: the task it builds.
ParseTask(id, priority, t) ==
    [id |-> id, priority |-> priority, retry_count |-> 0,
     source |-> "download", created |-> t,
     score |-> NewTaskScore(t, priority), copy |-> 1]

\* ZADD queue {json.dumps(task): score} of a task just built: a new member.
CanAdd(q, task) == \E n \in 1..MaxCopies : [task EXCEPT !.copy = n] \notin q
ZAdd(q, task) ==
    LET n == CHOOSE m \in 1..MaxCopies :
                 /\ [task EXCEPT !.copy = m] \notin q
                 /\ \A l \in 1..(m - 1) : [task EXCEPT !.copy = l] \in q
    IN q \cup {[task EXCEPT !.copy = n]}

\* bzpopmin: the members with the lowest score (one of them is popped); the
\* time is not consulted.
PopAny(q, t) == q
PopMin(q, t) == { e \in q : \A f \in q : e.score <= f.score }

\* bzpopmin: the queue once member e has been popped; returning the member
\* and removing it are one step of the server.
ZPeeked(q, e) == q
ZPopped(q, e) == q \ {e}

\* clear_expired_tasks: zrangebyscore(queue, -inf, current_time - 24h).
VeryOld(q, t) == { e \in q : e.score <= t - EXPIRED_AGE }

\* push_failed_task: the entry it pushes to failed_tasks.
FailedTask(e, t) ==
    [id |-> e.id, priority |-> e.priority, retry_count |-> e.retry_count + 1,
     source |-> e.source, created |-> e.created, copy |-> e.copy,
     failed_at |-> t]

\* push_failed_task: is the failed task queued again.
RetryAlways(f) == TRUE
ShouldRetry(f) == f.retry_count <= DEFAULT_MAX_RETRIES

\* _retry_task: the delay, and the task it adds with score time + delay.
RetryDelay(retry_count) == Min(BACKOFF_BASE * Pow2(retry_count), BACKOFF_CAP)

RetryTask(f, t) ==
    [id |-> f.id, priority |-> f.priority, retry_count |-> f.retry_count,
     source |-> f.source, created |-> f.created,
     score |-> t + RetryDelay(f.retry_count), copy |-> f.copy]

\* is_duplicate, SISMEMBER duplicate_check dup_key.
DedupKey(item) == <<item.id, item.url>>
SIsMemberNever(S, k) == FALSE
SIsMember(S, k) == k \in S

\* is_duplicate, SADD duplicate_check dup_key.
SAddMissing(S, k) == S
SAdd(S, k) == S \cup {k}

\* No expiry is set on the set.
ExpireNever(t) == 0

\* is_duplicate, EXPIRE duplicate_check 30 days.
ExpireAt(t) == t + DEDUP_TTL

-----------------------------------------------------------------------------
(* DatabaseManager *)

\* get_article_status(article_id): is there a row.
NoExistingRow(id) == FALSE
ExistingRow(id) == rows[id] # NoRow

\* create_or_update_article(_prepare_article_data(info)): a new row has the
\* column defaults; an existing row has the given columns overwritten.
CreateOrUpdate(row) ==
    IF row = NoRow
    THEN [discovery_status |-> "processing", download_status |-> "pending",
          parse_status |-> "pending", storage_status |-> "pending",
          retry_count |-> 0, error_message |-> "",
          discovered_at |-> now, downloaded_at |-> -1, parsed_at |-> -1]
    ELSE [row EXCEPT !.discovery_status = "processing",
                     !.discovered_at = now]

\* update_article_status: the timestamp column that goes with a status field.
StampOf(field) ==
    CASE field = "discovery_status" -> "discovered_at"
      [] field = "download_status" -> "downloaded_at"
      [] field = "parse_status" -> "parsed_at"

\* A status update that writes nothing.
KeepStatus(row, field, value, error) == row

\* update_article_status(id, field, value, error_message).
UpdateStatus(row, field, value, error) ==
    IF row = NoRow THEN row
    ELSE LET r1 == [row EXCEPT ![field] = value]
             r2 == IF error # ""
                   THEN [r1 EXCEPT !.error_message = error,
                                   !.retry_count = row.retry_count + 1]
                   ELSE r1
         IN IF value = "completed"
            THEN [r2 EXCEPT ![StampOf(field)] = now]
            ELSE r2

\* update_article_paths(id, {..., 'downloaded_at': utcnow()}).
UpdatePaths(row) ==
    IF row = NoRow THEN row ELSE [row EXCEPT !.downloaded_at = now]

-----------------------------------------------------------------------------
(* DiscoveryEngine.run_discovery / force_discovery, one step per call on   *)
(* the shared set, table or queue.                                         *)

Item(r) == run[r].feed[run[r].i]
Valid(item) == item.id # "" /\ item.url # ""

\* The loop of run_discovery over the result of _process_article: 'new' and
\* 'duplicate' are counted, a returned 'error' is not.
Counted(r, res) ==
    [run[r] EXCEPT !.i = run[r].i + 1,
                   !.res = res,
                   !.new = IF res = "new" THEN @ + 1 ELSE @,
                   !.dup = IF res \in {"dup_set", "dup_db"}
                              /\ run[r].kind = "run" THEN @ + 1 ELSE @]

Return(r, res) ==
    /\ run' = [run EXCEPT ![r] = Counted(r, res)]
    /\ pc' = [pc EXCEPT ![r] = "next"]

\* _health_check: the feed, the queue substrate and the state store, in
\* this order; the first that fails ends the check.
HealthCheck(feedOk, queueOk, storeOk) == feedOk /\ queueOk /\ storeOk

\* run_discovery up to the loop: health check, then fetch.
StartRunAnyway(r, feed, healthy) ==
    /\ pc[r] = "idle"
    /\ run' = [run EXCEPT ![r] =
            [IdleRun EXCEPT !.kind = "run", !.feed = feed,
                            !.discovered = Len(feed), !.healthy = healthy,
                            !.seen = {i \in Ids : pushed[i] > 0
                                         \/ rows[i] # NoRow}]]
    /\ pc' = [pc EXCEPT ![r] = "next"]
    /\ UNCHANGED <<storeVars, queueVars, fileVars, workVars, clockVars, pushed,
                   svcVars>>

StartRun(r, feed, healthy) ==
    /\ pc[r] = "idle"
    /\ IF healthy
       THEN /\ run' = [run EXCEPT ![r] =
                   [IdleRun EXCEPT !.kind = "run", !.feed = feed,
                                   !.discovered = Len(feed),
                                   !.seen = {i \in Ids : pushed[i] > 0
                                                \/ rows[i] # NoRow}]]
            /\ pc' = [pc EXCEPT ![r] = "next"]
       ELSE /\ run' = [run EXCEPT ![r] =
                   [IdleRun EXCEPT !.kind = "run", !.err = 1,
                                   !.healthy = FALSE]]
            /\ pc' = [pc EXCEPT ![r] = "done"]
    /\ UNCHANGED <<storeVars, queueVars, fileVars, workVars, clockVars, pushed,
                   svcVars>>

\* force_discovery up to the loop: no health check.
StartForce(r, feed) ==
    /\ pc[r] = "idle"
    /\ run' = [run EXCEPT ![r] =
            [IdleRun EXCEPT !.kind = "force", !.feed = feed,
                            !.discovered = Len(feed),
                            !.seen = {i \in Ids : pushed[i] > 0
                                         \/ rows[i] # NoRow}]]
    /\ pc' = [pc EXCEPT ![r] = "next"]
    /\ UNCHANGED <<storeVars, queueVars, fileVars, workVars, clockVars, pushed,
                   svcVars>>

\* _process_article steps 1-2: extract_article_info, the id/url test, and
\* is_duplicate's SISMEMBER.
CheckDuplicate(r) ==
    /\ pc[r] = "next"
    /\ run[r].i <= Len(run[r].feed)
    /\ IF ~Valid(Item(r))
       THEN Return(r, "invalid")
       ELSE IF SIsMember(dupSet, DedupKey(Item(r)))
            THEN Return(r, "dup_set")
            ELSE /\ pc' = [pc EXCEPT ![r] = "sadd"]
                 /\ run' = run
    /\ UNCHANGED <<storeVars, queueVars, fileVars, workVars, clockVars, pushed,
                   svcVars>>

\* is_duplicate when the key was absent: SADD, then EXPIRE of the whole set.
AddDedupKey(r) ==
    /\ pc[r] = "sadd"
    /\ dupSet' = SAdd(dupSet, DedupKey(Item(r)))
    /\ dupExpire' = ExpireAt(now)
    /\ addedAt' = [addedAt EXCEPT ![DedupKey(Item(r))] = now]
    /\ pc' = [pc EXCEPT ![r] = "dbget"]
    /\ UNCHANGED <<rows, run, queueVars, fileVars, workVars, clockVars, pushed,
                   svcVars>>

\* _process_article step 3: get_article_status.
CheckExisting(r) ==
    /\ pc[r] = "dbget"
    /\ IF ExistingRow(Item(r).id)
       THEN Return(r, "dup_db")
       ELSE /\ pc' = [pc EXCEPT ![r] = "create"]
            /\ run' = run
    /\ UNCHANGED <<storeVars, queueVars, fileVars, workVars, clockVars, pushed,
                   svcVars>>

\* _process_article step 4: create_or_update_article; it raises when the
\* commit fails and _process_article then returns 'error'.
CreateRow(r, ok) ==
    /\ pc[r] = "create"
    /\ IF ok
       THEN /\ rows' = [rows EXCEPT ![Item(r).id] = CreateOrUpdate(@)]
            /\ pc' = [pc EXCEPT ![r] = "push"]
            /\ run' = run
       ELSE /\ rows' = rows
            /\ Return(r, "err_create")
    /\ UNCHANGED <<dupSet, dupExpire, addedAt, queueVars, fileVars, workVars,
                   clockVars, pushed, svcVars>>

\* _process_article step 5: push_download_task(article_info); article_info
\* has no priority, so the task has priority 0.  ok is ZADD's answer.
PushDownload(r, ok) ==
    /\ pc[r] = "push"
    /\ IF ok
       THEN /\ CanAdd(downloadQ, DownloadTask(Item(r).id, 0, now))
            /\ downloadQ' = ZAdd(downloadQ, DownloadTask(Item(r).id, 0, now))
            /\ pushed' = [pushed EXCEPT ![Item(r).id] = @ + 1]
            /\ pc' = [pc EXCEPT ![r] = "mark_ok"]
       ELSE /\ UNCHANGED <<downloadQ, pushed>>
            /\ pc' = [pc EXCEPT ![r] = "mark_fail"]
    /\ UNCHANGED <<storeVars, parseQ, failedQ, run, fileVars, workVars,
                   clockVars, svcVars>>

\* _process_article steps 6-7: update_article_status after the push.
MarkDiscovered(r) ==
    /\ pc[r] \in {"mark_ok", "mark_fail"}
    /\ IF pc[r] = "mark_ok"
       THEN /\ rows' = [rows EXCEPT ![Item(r).id] =
                   UpdateStatus(@, "discovery_status", "completed", "")]
            /\ Return(r, "new")
       ELSE /\ rows' = [rows EXCEPT ![Item(r).id] =
                   UpdateStatus(@, "discovery_status", "failed", "push")]
            /\ Return(r, "err_push")
    /\ UNCHANGED <<dupSet, dupExpire, addedAt, queueVars, fileVars, workVars,
                   clockVars, pushed, svcVars>>

\* datetime.utcnow().date() of the clock.
SECONDS_PER_DAY == 86400
Today == now \div SECONDS_PER_DAY

\* No row of processing_stats.
NoStats == [date |-> -1, discovered_count |-> 0]

\* update_processing_stats(date, {'discovered_count': n}): an existing row
\* of the date has the attribute set to n, otherwise a row is added. The
\* rows of earlier dates are never read or written again and are left out.
UpdateProcessingStats(row, date, n) ==
    IF row.date = date
    THEN [row EXCEPT !.discovered_count = n]
    ELSE [date |-> date, discovered_count |-> n]

\* The loop has ended: run_discovery calls _update_stats(run_stats), and the
\* run's counts are what the call returns. force_discovery writes no stats.
FinishRun(r) ==
    /\ pc[r] = "next"
    /\ run[r].i > Len(run[r].feed)
    /\ pc' = [pc EXCEPT ![r] = "done"]
    /\ run' = [run EXCEPT ![r].res = "none"]
    /\ IF run[r].kind = "run"
       THEN statsTable' =
                UpdateProcessingStats(statsTable, Today, run[r].new)
       ELSE UNCHANGED statVars
    /\ UNCHANGED <<storeVars, queueVars, fileVars, workVars, clockVars, pushed,
                   timeVars, superVars, schedVars, opsVars>>

\* The caller has the result; the runner is free for the next run.
ReturnRun(r) ==
    /\ pc[r] = "done"
    /\ pc' = [pc EXCEPT ![r] = "idle"]
    /\ run' = [run EXCEPT ![r] = IdleRun]
    /\ UNCHANGED <<storeVars, queueVars, fileVars, workVars, clockVars, pushed,
                   svcVars>>

-----------------------------------------------------------------------------
(* DownloadEngine.run_download_worker, one task of the batch *)

\* pop_download_task.
PopTask(w) ==
    /\ w \in DownloadWorkers
    /\ wpc[w] = "idle"
    /\ \E e \in PopMin(downloadQ, now) :
         /\ attempts[e.id] < MaxAttempts
         /\ downloadQ' = ZPopped(downloadQ, e)
         /\ wtask' = [wtask EXCEPT ![w] = e]
         /\ attempts' = [attempts EXCEPT ![e.id] = @ + 1]
    /\ wpc' = [wpc EXCEPT ![w] = "download"]
    /\ UNCHANGED <<storeVars, parseQ, failedQ, fileVars, discVars, wres,
                   offset, clockVars>>

\* The pop of a batch whose loop control is left open.
PopDownloadTask(w) == PopTask(w) /\ UNCHANGED svcVars

\* _handle_download_failure(task, error): under the limit the task goes
\* through push_download_task again, at the limit the row is marked failed.
HandleDownloadFailure(task, table) ==
    IF task.retry_count < MAX_DOWNLOAD_RETRIES
    THEN /\ CanAdd(downloadQ, DownloadTask(task.id, task.priority, now))
         /\ downloadQ' =
                ZAdd(downloadQ, DownloadTask(task.id, task.priority, now))
         /\ rows' = table
    ELSE /\ rows' = [table EXCEPT ![task.id] =
                UpdateStatus(@, "download_status", "failed", "download")]
         /\ downloadQ' = downloadQ

\* The body of the batch loop for the popped task. fetched: _download_html
\* got the page and wrote html/{id}.html, and _process_download_task stored
\* the paths and downloaded_at in the row. A fetched task then reaches
\* queue_manager.complete_download_task, which QueueManager does not define:
\* the AttributeError is caught and handled as a failure of the task. A task
\* that was not fetched is handled as a failure as well.
ProcessTask(w, fetched) ==
    /\ w \in DownloadWorkers
    /\ wpc[w] = "download"
    /\ html' = IF fetched THEN html \cup {wtask[w].id} ELSE html
    /\ mtime' = IF fetched
                THEN [mtime EXCEPT ![<<"html", wtask[w].id>>] = now]
                ELSE mtime
    /\ wres' = [wres EXCEPT ![w] = IF fetched THEN "success" ELSE "failure"]
    /\ HandleDownloadFailure(wtask[w],
           IF fetched THEN [rows EXCEPT ![wtask[w].id] = UpdatePaths(@)]
                      ELSE rows)
    /\ wpc' = [wpc EXCEPT ![w] = "idle"]
    /\ wtask' = [wtask EXCEPT ![w] = NoTask]
    /\ UNCHANGED <<dupSet, dupExpire, addedAt, parseQ, failedQ, text, discVars,
                   offset, attempts, clockVars>>

\* The body of a batch whose loop control and counts are left open.
ProcessDownloadTask(w, fetched) == ProcessTask(w, fetched) /\ UNCHANGED svcVars

-----------------------------------------------------------------------------
(* TextExtractionEngine.run_extraction_worker(max_tasks)                    *)

\* glob.glob(html/*.html): the files in an order the directory decides.
Listings ==
    { l \in [1..Cardinality(html) -> html] :
        \A i, j \in 1..Cardinality(html) : l[i] = l[j] => i = j }

\* _create_task_from_downloaded_files(offset): NoTask stands for None.
CreateTaskFromDownloadedFiles(listing, n) ==
    IF n >= Len(listing) THEN NoTask
    ELSE IF listing[n + 1] \in text THEN NoTask
    ELSE [NoTask EXCEPT !.id = listing[n + 1], !.source = "file_discovery"]

\* A batch begins: tasks_processed = 0.
StartExtraction(w) ==
    /\ w = "ex"
    /\ wpc[w] = "idle"
    /\ wpc' = [wpc EXCEPT ![w] = "loop"]
    /\ offset' = 0
    /\ UNCHANGED <<storeVars, queueVars, fileVars, discVars, wtask, wres,
                   attempts, clockVars, svcVars>>

\* pop_parse_task.
PopParseTask(w) ==
    /\ w = "ex"
    /\ wpc[w] = "loop"
    /\ offset < MaxTasks
    /\ \E e \in PopMin(parseQ, now) :
         /\ parseQ' = ZPopped(parseQ, e)
         /\ wtask' = [wtask EXCEPT ![w] = e]
    /\ wpc' = [wpc EXCEPT ![w] = "extract"]
    /\ UNCHANGED <<storeVars, downloadQ, failedQ, fileVars, discVars, wres,
                   offset, attempts, clockVars, svcVars>>

\* parse_tasks is empty: the task comes from the html directory.
FileTask(w) ==
    /\ w = "ex"
    /\ wpc[w] = "loop"
    /\ offset < MaxTasks
    /\ parseQ = {}
    /\ \E l \in Listings :
         /\ CreateTaskFromDownloadedFiles(l, offset) # NoTask
         /\ wtask' = [wtask EXCEPT ![w] =
                          CreateTaskFromDownloadedFiles(l, offset)]
    /\ wpc' = [wpc EXCEPT ![w] = "extract"]
    /\ UNCHANGED <<storeVars, queueVars, fileVars, discVars, wres, offset,
                   attempts, clockVars, svcVars>>

\* The batch ends: max_tasks are done, or there is no task.
EndExtraction(w) ==
    /\ w = "ex"
    /\ wpc[w] = "loop"
    /\ \/ offset >= MaxTasks
       \/ /\ parseQ = {}
          /\ \E l \in Listings :
               CreateTaskFromDownloadedFiles(l, offset) = NoTask
    /\ wpc' = [wpc EXCEPT ![w] = "idle"]
    /\ UNCHANGED <<storeVars, queueVars, fileVars, discVars, wtask, wres,
                   offset, attempts, clockVars, svcVars>>

\* process_single_task: without the HTML file or without extracted text the
\* task fails and is dropped; otherwise the text file is written and
\* parse_status set.
ProcessParseTask(w, extracted) ==
    /\ w = "ex"
    /\ wpc[w] = "extract"
    /\ IF wtask[w].id \in html /\ extracted
       THEN /\ text' = text \cup {wtask[w].id}
            /\ mtime' = [mtime EXCEPT ![<<"text", wtask[w].id>>] = now]
            /\ rows' = [rows EXCEPT ![wtask[w].id] =
                   UpdateStatus(@, "parse_status", "completed", "")]
            /\ wres' = [wres EXCEPT ![w] = "success"]
       ELSE /\ UNCHANGED <<text, mtime, rows>>
            /\ wres' = [wres EXCEPT ![w] = "failure"]
    /\ wpc' = [wpc EXCEPT ![w] = "loop"]
    /\ wtask' = [wtask EXCEPT ![w] = NoTask]
    /\ offset' = offset + 1
    /\ UNCHANGED <<dupSet, dupExpire, addedAt, queueVars, html, discVars,
                   attempts, clockVars, svcVars>>

-----------------------------------------------------------------------------
(* DownloadEngine.cleanup_old_files(days = 30): os.walk(storage_base)       *)
(* removes every file last written more than 30 days ago; html/ and text/   *)
(* are both under storage_base. The rows are not touched.                   *)

OldFiles == { f \in Files : /\ f[2] \in (IF f[1] = "html" THEN html ELSE text)
                            /\ mtime[f] < now - FILE_MAX_AGE }

CleanupOldFiles ==
    /\ OldFiles # {}
    /\ html' = html \ { f[2] : f \in { g \in OldFiles : g[1] = "html" } }
    /\ text' = text \ { f[2] : f \in { g \in OldFiles : g[1] = "text" } }
    /\ UNCHANGED <<mtime, storeVars, queueVars, discVars, workVars, clockVars,
                   svcVars>>

-----------------------------------------------------------------------------
(* QueueManager.clear_expired_tasks (DiscoveryEngine.cleanup_old_data):    *)
(* every task older than 24 h by score goes through push_failed_task, which *)
(* records it in failed_tasks and, within the retry limit, queues it again  *)
(* through _retry_task; then the old member is removed.                     *)

ClearExpiredTasks ==
    LET oldD == VeryOld(downloadQ, now)
        oldP == VeryOld(parseQ, now)
        failedNow == { FailedTask(e, now) : e \in oldD \cup oldP }
        retried == { RetryTask(f, now) : f \in {g \in failedNow : ShouldRetry(g)} }
    IN /\ oldD \cup oldP # {}
       /\ Cardinality(failedQ \cup failedNow) <= MaxFailed
       /\ failedQ' = failedQ \cup failedNow
       /\ downloadQ' = (downloadQ \ oldD)
                          \cup { e \in retried : e.source = "discovery" }
       /\ parseQ' = (parseQ \ oldP)
                          \cup { e \in retried : e.source = "download" }
       /\ UNCHANGED <<storeVars, fileVars, discVars, workVars, clockVars,
                   svcVars>>

-----------------------------------------------------------------------------
(* Callers of push_download_task / push_parse_task with a priority of     *)
(* their own (article_data['priority'])                                    *)

ApiPushDownloadTask(id, priority) ==
    /\ pushed[id] < MaxQueue
    /\ CanAdd(downloadQ, DownloadTask(id, priority, now))
    /\ downloadQ' = ZAdd(downloadQ, DownloadTask(id, priority, now))
    /\ pushed' = [pushed EXCEPT ![id] = @ + 1]
    /\ UNCHANGED <<storeVars, parseQ, failedQ, fileVars, pc, run, workVars,
                   clockVars, svcVars>>

ApiPushParseTask(id, priority) ==
    /\ pushed[id] < MaxQueue
    /\ CanAdd(parseQ, ParseTask(id, priority, now))
    /\ parseQ' = ZAdd(parseQ, ParseTask(id, priority, now))
    /\ pushed' = [pushed EXCEPT ![id] = @ + 1]
    /\ UNCHANGED <<storeVars, downloadQ, failedQ, fileVars, pc, run, workVars,
                   clockVars, svcVars>>

-----------------------------------------------------------------------------
(* The clock.  Redis deletes duplicate_check when its expiry time is       *)
(* reached. A discovery run is over within one clock step.                 *)

Tick(d) ==
    /\ ticks < MaxTicks
    /\ \A r \in Runners : pc[r] = "idle"
    /\ now' = now + d
    /\ ticks' = ticks + 1
    /\ IF dupExpire # 0 /\ now + d >= dupExpire
       THEN /\ dupSet' = {}
            /\ dupExpire' = 0
            /\ addedAt' = [k \in Keys |-> -1]
       ELSE UNCHANGED <<dupSet, dupExpire, addedAt>>
    /\ UNCHANGED <<rows, queueVars, fileVars, discVars, workVars, svcVars>>

\* A clock step of the size that matters to the 30-day dedup expiry.
TickDedup ==
    /\ ticks < MaxDedupTicks
    /\ Tick(HalfMonthStep)

-----------------------------------------------------------------------------

(* WeWeRSSClient._parse_publish_time. A timestamp v is kept as the pair     *)
(* [k, r] with v = 1000 * k + r and 0 <= r < 1000, so that millisecond      *)
(* values stay within the checker's integers. Every value used is below     *)
(* 2^53, where time_value / 1000 and int() of it are exact to the second.   *)

Num(k, r) == [type |-> "int", k |-> k, r |-> r]
Str(ts) == [type |-> "str", k |-> ts, r |-> 0]
Absent == [type |-> "absent", k |-> 0, r |-> 0]

\* A string dateutil cannot parse, and the empty string.
BadString == Str(-1)
EmptyString == Str(-2)

\* 1e10, in thousands.
MS_THRESHOLD == 10000000

time_fields ==
    <<"publish_time", "pubDate", "published", "updated", "date", "timestamp">>

\* `field in article and article[field]`: present and truthy.
Truthy(v) ==
    /\ v # Absent
    /\ v # EmptyString
    /\ ~(v.type = "int" /\ v.k = 0 /\ v.r = 0)

\* time_value > 1e10.
IsMillis(v) == v.k > MS_THRESHOLD \/ (v.k = MS_THRESHOLD /\ v.r > 0)

\* int(time_value / 1000) or int(time_value).
ToSeconds(v) == IF IsMillis(v) THEN Num(v.k \div 1000, v.k % 1000) ELSE v

\* int(time.time()).
NowSeconds(t) == Num(t \div 1000, t % 1000)

RECURSIVE ParseFrom(_, _, _)
ParseFrom(a, j, t) ==
    IF j > Len(time_fields) THEN NowSeconds(t)
    ELSE LET v == a[time_fields[j]]
         IN IF ~Truthy(v) THEN ParseFrom(a, j + 1, t)
            ELSE IF v.type = "int" THEN ToSeconds(v)
            ELSE IF v # BadString THEN Num(v.k \div 1000, v.k % 1000)
            ELSE ParseFrom(a, j + 1, t)

ParsePublishTime(a, t) == ParseFrom(a, 1, t)

\* The raw articles: publish_time and timestamp take the values around the
\* threshold, the other fields are absent.
TimeValues ==
    { Absent, EmptyString, BadString, Str(1640995200),
      Num(0, 0), Num(0, 1), Num(1640995, 200), Num(MS_THRESHOLD - 1, 999),
      Num(MS_THRESHOLD, 0), Num(MS_THRESHOLD, 1), Num(1640995200, 0) }

OtherValues == { Absent, BadString, Num(1640995, 201) }

NoArticle == [f \in { time_fields[j] : j \in 1..Len(time_fields) } |-> Absent]

Articles ==
    { [NoArticle EXCEPT !["publish_time"] = v, !["timestamp"] = u] :
        v \in TimeValues, u \in OtherValues }

ParseArticle(a) ==
    /\ article' = a
    /\ parsed' = ParsePublishTime(a, now)
    /\ UNCHANGED <<storeVars, queueVars, fileVars, discVars, workVars,
                   clockVars, statVars, superVars, schedVars, opsVars>>

-----------------------------------------------------------------------------
Init ==
    /\ now = 0
    /\ ticks = 0
    /\ dupSet = {}
    /\ dupExpire = 0
    /\ rows = [i \in Ids |-> NoRow]
    /\ downloadQ = {}
    /\ parseQ = {}
    /\ failedQ = {}
    /\ html = {}
    /\ text = {}
    /\ pc = [r \in Runners |-> "idle"]
    /\ run = [r \in Runners |-> IdleRun]
    /\ wpc = [w \in Workers |-> "idle"]
    /\ wtask = [w \in Workers |-> NoTask]
    /\ wres = [w \in Workers |-> "none"]
    /\ offset = 0
    /\ mtime = [f \in Files |-> 0]
    /\ pushed = [i \in Ids |-> 0]
    /\ attempts = [i \in Ids |-> 0]
    /\ addedAt = [k \in Keys |-> -1]
    /\ statsTable = NoStats
    /\ article = NoArticle
    /\ parsed = Absent
    /\ is_running = FALSE
    /\ loop = [w \in DownloadWorkers |-> "none"]
    /\ processed = [w \in DownloadWorkers |-> 0]
    /\ sched_running = FALSE
    /\ jobs = {}
    /\ due = {}
    /\ sloop = [t \in SchedThreads |-> "none"]
    /\ sjob = [t \in SchedThreads |-> 0]
    /\ spc = "idle"
    /\ nstarts = 0
    /\ fired = [j \in JobIds |-> 0]
    /\ last_cleanup = [time |-> -1, n |-> 0]
    /\ pushRet = NoCall
    /\ successful = [w \in DownloadWorkers |-> 0]
    /\ failed = [w \in DownloadWorkers |-> 0]

\* Discovery runs one after the other, every store and queue call succeeds.
NextSeq ==
    \/ \E f \in Feeds(MaxFeed) : StartRun("sched", f, TRUE)
    \/ \E f \in Feeds(MaxFeed) : StartForce("sched", f)
    \/ CheckDuplicate("sched")
    \/ AddDedupKey("sched")
    \/ CheckExisting("sched")
    \/ CreateRow("sched", TRUE)
    \/ PushDownload("sched", TRUE)
    \/ MarkDiscovered("sched")
    \/ FinishRun("sched")
    \/ ReturnRun("sched")
    \/ TickDedup

SpecSeq == Init /\ [][NextSeq]_vars

\* The scheduler thread's job and an HTTP-triggered run, concurrently.
NextDisc ==
    \/ \E r \in Runners, f \in Feeds(1), a, b, c \in BOOLEAN :
         StartRun(r, f, HealthCheck(a, b, c))
    \/ \E r \in Runners : CheckDuplicate(r)
    \/ \E r \in Runners : AddDedupKey(r)
    \/ \E r \in Runners : CheckExisting(r)
    \/ \E r \in Runners, ok \in BOOLEAN : CreateRow(r, ok)
    \/ \E r \in Runners, ok \in BOOLEAN : PushDownload(r, ok)
    \/ \E r \in Runners : MarkDiscovered(r)
    \/ \E r \in Runners : FinishRun(r)
    \/ \E r \in Runners : ReturnRun(r)

SpecDisc == Init /\ [][NextDisc]_vars

\* The pipeline for one article: scheduled discovery, the download worker
\* and the cleanup.
PipelineFeed == <<[id |-> "a1", url |-> "u1"]>>

Next ==
    \/ StartRun("sched", PipelineFeed, TRUE)
    \/ CheckDuplicate("sched")
    \/ AddDedupKey("sched")
    \/ CheckExisting("sched")
    \/ CreateRow("sched", TRUE)
    \/ PushDownload("sched", TRUE)
    \/ MarkDiscovered("sched")
    \/ FinishRun("sched")
    \/ ReturnRun("sched")
    \/ PopDownloadTask("dl")
    \/ \E fetched \in BOOLEAN : ProcessDownloadTask("dl", fetched)
    \/ ClearExpiredTasks
    \/ Tick(DayStep)

Spec == Init /\ [][Next]_vars

\* The download queue as the callers of QueueManager can drive it, with
\* priorities, and a worker whose every fetch fails.
TickQueue ==
    /\ ticks < MaxQueueTicks
    /\ Tick(DayStep)

NextQueue ==
    \/ \E p \in Priorities : ApiPushDownloadTask("a1", p)
    \/ PopDownloadTask("dl")
    \/ ProcessDownloadTask("dl", FALSE)
    \/ ClearExpiredTasks
    \/ TickQueue

SpecQueue == Init /\ [][NextQueue]_vars

\* The pipeline for one article with the extraction worker and the file
\* cleanup, over months.
NextPipe ==
    \/ StartRun("sched", PipelineFeed, TRUE)
    \/ CheckDuplicate("sched")
    \/ AddDedupKey("sched")
    \/ CheckExisting("sched")
    \/ CreateRow("sched", TRUE)
    \/ PushDownload("sched", TRUE)
    \/ MarkDiscovered("sched")
    \/ FinishRun("sched")
    \/ ReturnRun("sched")
    \/ PopDownloadTask("dl")
    \/ \E fetched \in BOOLEAN : ProcessDownloadTask("dl", fetched)
    \/ StartExtraction("ex")
    \/ FileTask("ex")
    \/ \E extracted \in BOOLEAN : ProcessParseTask("ex", extracted)
    \/ EndExtraction("ex")
    \/ CleanupOldFiles
    \/ TickDedup

SpecPipe == Init /\ [][NextPipe]_vars


\* The pipeline for one article when every fetch, write and store call
\* succeeds.
NextHappy ==
    \/ StartRun("sched", PipelineFeed, TRUE)
    \/ CheckDuplicate("sched")
    \/ AddDedupKey("sched")
    \/ CheckExisting("sched")
    \/ CreateRow("sched", TRUE)
    \/ PushDownload("sched", TRUE)
    \/ MarkDiscovered("sched")
    \/ FinishRun("sched")
    \/ ReturnRun("sched")
    \/ PopDownloadTask("dl")
    \/ ProcessDownloadTask("dl", TRUE)
    \/ StartExtraction("ex")
    \/ FileTask("ex")
    \/ ProcessParseTask("ex", TRUE)
    \/ EndExtraction("ex")
    \/ TickQueue

SpecHappy == Init /\ [][NextHappy]_vars

\* HTML files written by the download worker for tasks pushed by a caller;
\* parse_tasks stays empty and the extraction worker, which runs batch after
\* batch and whose every extraction succeeds, works in file-discovery mode.
NextFiles ==
    \/ \E i \in Ids : ApiPushDownloadTask(i, 0)
    \/ PopDownloadTask("dl")
    \/ ProcessDownloadTask("dl", TRUE)
    \/ StartExtraction("ex")
    \/ FileTask("ex")
    \/ ProcessParseTask("ex", TRUE)
    \/ EndExtraction("ex")

\* The extraction service's loop keeps running batches, and a batch keeps
\* taking its next step.
ExtractionFairness ==
    /\ WF_vars(StartExtraction("ex"))
    /\ WF_vars(FileTask("ex"))
    /\ WF_vars(ProcessParseTask("ex", TRUE))
    /\ WF_vars(EndExtraction("ex"))

SpecFiles == Init /\ [][NextFiles]_vars /\ ExtractionFairness

\* The extraction worker with parse tasks pushed by a caller; an extraction
\* may fail.
NextParse ==
    \/ \E i \in Ids : ApiPushDownloadTask(i, 0)
    \/ \E i \in Ids : ApiPushParseTask(i, 0)
    \/ PopDownloadTask("dl")
    \/ ProcessDownloadTask("dl", TRUE)
    \/ StartExtraction("ex")
    \/ PopParseTask("ex")
    \/ FileTask("ex")
    \/ \E extracted \in BOOLEAN : ProcessParseTask("ex", extracted)
    \/ EndExtraction("ex")

SpecParse == Init /\ [][NextParse]_vars

\* The download worker's process is killed between pop_download_task and the
\* handling of the result: the task it holds is gone (BZPOPMIN has removed
\* it and nothing acknowledges or returns it), the rows are as they were,
\* and html/{id}.html is on disk when the kill came after the write. The
\* restarted worker begins idle.
Crash(w, written) ==
    /\ w \in DownloadWorkers
    /\ wpc[w] = "download"
    /\ html' = IF written THEN html \cup {wtask[w].id} ELSE html
    /\ mtime' = IF written
                THEN [mtime EXCEPT ![<<"html", wtask[w].id>>] = now]
                ELSE mtime
    /\ wres' = [wres EXCEPT ![w] = "killed"]
    /\ wpc' = [wpc EXCEPT ![w] = "idle"]
    /\ wtask' = [wtask EXCEPT ![w] = NoTask]
    /\ UNCHANGED <<storeVars, queueVars, text, discVars, offset, attempts,
                   clockVars, svcVars>>

\* AutoQueueCleaner.clean_download_queue: every member of download_tasks
\* whose id has an HTML file is removed from the queue.
CleanedNothing(q, files) == q
CleanedQueue(q, files) == { e \in q : e.id \notin files }

CleanDownloadQueue ==
    /\ downloadQ # {}
    /\ downloadQ' = CleanedQueue(downloadQ, html)
    /\ UNCHANGED <<storeVars, parseQ, failedQ, fileVars, discVars, workVars,
                   clockVars, svcVars>>

\* One article, the scheduler's repeated runs, one download worker that may
\* be killed, and the queue cleaner.
NextCrash ==
    \/ \E healthy \in BOOLEAN : StartRun("sched", PipelineFeed, healthy)
    \/ CheckDuplicate("sched")
    \/ AddDedupKey("sched")
    \/ CheckExisting("sched")
    \/ CreateRow("sched", TRUE)
    \/ PushDownload("sched", TRUE)
    \/ MarkDiscovered("sched")
    \/ FinishRun("sched")
    \/ ReturnRun("sched")
    \/ PopDownloadTask("dl")
    \/ \E fetched \in BOOLEAN : ProcessDownloadTask("dl", fetched)
    \/ \E written \in BOOLEAN : Crash("dl", written)
    \/ CleanDownloadQueue
    \/ CleanupOldFiles
    \/ TickDedup

\* The scheduler keeps starting runs and a run keeps taking its next step;
\* the restarted worker keeps popping and handling tasks; the cleaner keeps
\* running. Kills, failed fetches and the clock are not forced.
CrashFairness ==
    /\ WF_vars(StartRun("sched", PipelineFeed, TRUE))
    /\ WF_vars(CheckDuplicate("sched"))
    /\ WF_vars(AddDedupKey("sched"))
    /\ WF_vars(CheckExisting("sched"))
    /\ WF_vars(CreateRow("sched", TRUE))
    /\ WF_vars(PushDownload("sched", TRUE))
    /\ WF_vars(MarkDiscovered("sched"))
    /\ WF_vars(FinishRun("sched"))
    /\ WF_vars(ReturnRun("sched"))
    /\ WF_vars(PopDownloadTask("dl"))
    /\ WF_vars(ProcessDownloadTask("dl", TRUE))
    /\ WF_vars(CleanDownloadQueue)

SpecCrash == Init /\ [][NextCrash]_vars /\ CrashFairness

\* Two instances of the download worker on the same queue.
NextWorkers ==
    \/ \E i \in Ids : ApiPushDownloadTask(i, 0)
    \/ \E w \in DownloadWorkers : PopDownloadTask(w)
    \/ \E w \in DownloadWorkers, fetched \in BOOLEAN :
         ProcessDownloadTask(w, fetched)

SpecWorkers == Init /\ [][NextWorkers]_vars

(* DownloadService.start_worker / stop_worker and the worker_loop threads.  *)
(* A thread is at "check" (the while test), in "batch"                      *)
(* (run_download_batch), in "sleep", or has "exited".                       *)

\* start_worker: nothing when is_running is set; otherwise the flag is set
\* and a new thread is started.
StartWorker ==
    /\ IF is_running
       THEN UNCHANGED <<is_running, loop>>
       ELSE /\ is_running' = TRUE
            /\ \E w \in DownloadWorkers :
                 /\ loop[w] \in {"none", "exited"}
                 /\ loop' = [loop EXCEPT ![w] = "check"]
    /\ UNCHANGED <<storeVars, queueVars, fileVars, discVars, workVars,
                   clockVars, statVars, timeVars, schedVars, opsVars, processed>>

\* stop_worker: the flag is cleared; the thread is not joined.
StopWorker ==
    /\ is_running' = FALSE
    /\ UNCHANGED <<storeVars, queueVars, fileVars, discVars, workVars,
                   clockVars, statVars, timeVars, schedVars, opsVars, loop, processed>>

\* while self.is_running: the next batch begins with fresh run_stats, or
\* the thread ends.
LoopCheck(w) ==
    /\ loop[w] = "check"
    /\ loop' = [loop EXCEPT ![w] = IF is_running THEN "batch" ELSE "exited"]
    /\ processed' = [processed EXCEPT ![w] = 0]
    /\ successful' = [successful EXCEPT ![w] = 0]
    /\ failed' = [failed EXCEPT ![w] = 0]
    /\ UNCHANGED <<storeVars, queueVars, fileVars, discVars, workVars,
                   clockVars, statVars, timeVars, schedVars, last_cleanup,
                   pushRet, is_running>>

\* for i in range(max_tasks): pop_download_task, processed += 1.
BatchPop(w) ==
    /\ loop[w] = "batch"
    /\ processed[w] < BatchSize
    /\ PopTask(w)
    /\ processed' = [processed EXCEPT ![w] = @ + 1]
    /\ UNCHANGED <<statVars, timeVars, schedVars, opsVars, is_running, loop>>

\* The body of the loop for the popped task, with the counts of run_stats.
\* A fetched task is counted in successful; complete_download_task then
\* raises, and the except branch of the loop counts the task in failed too.
\* A task that was not fetched is counted in failed.
BatchProcess(w, fetched) ==
    /\ loop[w] = "batch"
    /\ ProcessTask(w, fetched)
    /\ successful' = [successful EXCEPT ![w] = IF fetched THEN @ + 1 ELSE @]
    /\ failed' = [failed EXCEPT ![w] = @ + 1]
    /\ UNCHANGED <<statVars, timeVars, superVars, schedVars, last_cleanup,
                   pushRet>>

\* The batch is over: max_tasks were taken, or the pop returned nothing.
BatchEnd(w) ==
    /\ loop[w] = "batch"
    /\ wpc[w] = "idle"
    /\ \/ processed[w] = BatchSize
       \/ ~\E e \in PopMin(downloadQ, now) : attempts[e.id] < MaxAttempts
    /\ loop' = [loop EXCEPT ![w] = "sleep"]
    /\ UNCHANGED <<storeVars, queueVars, fileVars, discVars, workVars,
                   clockVars, statVars, timeVars, schedVars, opsVars, is_running, processed>>

\* time.sleep(interval) is over.
Wake(w) ==
    /\ loop[w] = "sleep"
    /\ loop' = [loop EXCEPT ![w] = "check"]
    /\ UNCHANGED <<storeVars, queueVars, fileVars, discVars, workVars,
                   clockVars, statVars, timeVars, schedVars, opsVars, is_running, processed>>

\* The download service under start and stop requests, with tasks pushed by
\* a caller.
NextSuper ==
    \/ StartWorker
    \/ StopWorker
    \/ \E w \in DownloadWorkers : LoopCheck(w)
    \/ \E w \in DownloadWorkers : BatchPop(w)
    \/ \E w \in DownloadWorkers, fetched \in BOOLEAN : BatchProcess(w, fetched)
    \/ \E w \in DownloadWorkers : BatchEnd(w)
    \/ \E w \in DownloadWorkers : Wake(w)
    \/ ApiPushDownloadTask("a1", 0)

SpecSuper == Init /\ [][NextSuper]_vars

(* DiscoveryScheduler.start / stop / _scheduler_loop over the module-wide   *)
(* schedule. A thread is at "check" (the while test followed by             *)
(* run_pending), in "job" (_run_discovery_job, whose body is run_discovery),*)
(* in "sleep", or has "exited". start() and stop() are called one after     *)
(* the other.                                                               *)

othersUnchanged ==
    UNCHANGED <<storeVars, queueVars, fileVars, discVars, workVars, clockVars,
                statVars, timeVars, superVars, opsVars>>

\* start(): nothing when is_running is set; otherwise a job is registered,
\* the flag set, a thread started, and the caller runs _run_discovery_job.
SchedStart ==
    /\ spc = "idle"
    /\ IF sched_running
       THEN UNCHANGED schedVars
       ELSE /\ nstarts < MaxStarts
            /\ nstarts' = nstarts + 1
            /\ jobs' = jobs \cup {nstarts + 1}
            /\ sched_running' = TRUE
            /\ \E t \in SchedThreads :
                 /\ sloop[t] \in {"none", "exited"}
                 /\ sloop' = [sloop EXCEPT ![t] = "check"]
            /\ spc' = "immediate"
            /\ UNCHANGED <<due, sjob, fired>>
    /\ othersUnchanged

\* The immediate _run_discovery_job of start() returns.
SchedStarted ==
    /\ spc = "immediate"
    /\ spc' = "idle"
    /\ UNCHANGED <<sched_running, jobs, due, sloop, sjob, nstarts, fired>>
    /\ othersUnchanged

\* stop(): nothing when the flag is clear; otherwise the flag is cleared,
\* schedule.clear() drops every job, and the thread is joined for at most
\* 5 seconds: a thread at its test or in sleep(1) has ended by then, a
\* thread inside a discovery run may not have.
SchedStop ==
    /\ spc = "idle"
    /\ IF ~sched_running
       THEN UNCHANGED schedVars
       ELSE /\ sched_running' = FALSE
            /\ jobs' = {}
            /\ due' = {}
            /\ sloop' = [t \in SchedThreads |->
                   IF sloop[t] \in {"check", "sleep"} THEN "exited"
                   ELSE sloop[t]]
            /\ UNCHANGED <<sjob, spc, nstarts, fired>>
    /\ othersUnchanged

\* DISCOVERY_INTERVAL seconds have passed since the job was scheduled.
IntervalElapses(j) ==
    /\ j \in jobs \ due
    /\ \A t \in SchedThreads : sjob[t] # j
    /\ due' = due \cup {j}
    /\ fired' = [fired EXCEPT ![j] = 0]
    /\ UNCHANGED <<sched_running, jobs, sloop, sjob, spc, nstarts>>
    /\ othersUnchanged

\* while self.is_running: schedule.run_pending(). A due job is run, its
\* next run time being set only when the job function has returned.
SchedCheck(t) ==
    /\ sloop[t] = "check"
    /\ IF ~sched_running
       THEN /\ sloop' = [sloop EXCEPT ![t] = "exited"]
            /\ UNCHANGED <<sjob, fired>>
       ELSE IF jobs \cap due = {}
       THEN /\ sloop' = [sloop EXCEPT ![t] = "sleep"]
            /\ UNCHANGED <<sjob, fired>>
       ELSE \E j \in jobs \cap due :
              /\ sloop' = [sloop EXCEPT ![t] = "job"]
              /\ sjob' = [sjob EXCEPT ![t] = j]
              /\ fired' = [fired EXCEPT ![j] = @ + 1]
    /\ UNCHANGED <<sched_running, jobs, due, spc, nstarts>>
    /\ othersUnchanged

\* The job function has returned: the job's next run is scheduled.
JobDone(t) ==
    /\ sloop[t] = "job"
    /\ due' = due \ {sjob[t]}
    /\ sjob' = [sjob EXCEPT ![t] = 0]
    /\ sloop' = [sloop EXCEPT ![t] = "sleep"]
    /\ UNCHANGED <<sched_running, jobs, spc, nstarts, fired>>
    /\ othersUnchanged

\* time.sleep(1) is over.
SchedWake(t) ==
    /\ sloop[t] = "sleep"
    /\ sloop' = [sloop EXCEPT ![t] = "check"]
    /\ UNCHANGED <<sched_running, jobs, due, sjob, spc, nstarts, fired>>
    /\ othersUnchanged

NextSched ==
    \/ SchedStart
    \/ SchedStarted
    \/ SchedStop
    \/ \E j \in JobIds : IntervalElapses(j)
    \/ \E t \in SchedThreads : SchedCheck(t)
    \/ \E t \in SchedThreads : JobDone(t)
    \/ \E t \in SchedThreads : SchedWake(t)

SpecSched == Init /\ [][NextSched]_vars

(* AutoQueueCleaner.run_cleanup: clean_download_queue, clean_failed_tasks,  *)
(* last_cleanup = now.                                                      *)

\* ZCARD failed_tasks. push_failed_task writes failed_tasks with LPUSH, so
\* the key, once it exists, holds a list: the sorted-set commands ZCARD and
\* ZREMRANGEBYSCORE are answered with WRONGTYPE, which the client raises.
\* A key that does not exist counts 0 members.
WrongType == -1
ZCard(fq) == IF fq = {} THEN 0 ELSE WrongType

\* clean_failed_tasks: with a positive count the entries older than 24 h
\* are removed; the raised error is caught and nothing is removed.
CleanFailedTasks(fq, t) ==
    IF ZCard(fq) > 0
    THEN { f \in fq : f.failed_at > t - EXPIRED_AGE }
    ELSE fq

RunCleanup ==
    /\ last_cleanup.n < MaxCleanups
    /\ downloadQ' = CleanedQueue(downloadQ, html)
    /\ failedQ' = CleanFailedTasks(failedQ, now)
    /\ last_cleanup' = [time |-> now, n |-> last_cleanup.n + 1]
    /\ UNCHANGED <<storeVars, parseQ, fileVars, discVars, workVars, clockVars,
                   statVars, timeVars, superVars, schedVars, pushRet,
                   successful, failed>>

\* The download queue with a worker whose fetches succeed, and the cleaner.
NextClean ==
    \/ \E i \in Ids : ApiPushDownloadTask(i, 0)
    \/ PopDownloadTask("dl")
    \/ ProcessDownloadTask("dl", TRUE)
    \/ RunCleanup

SpecClean == Init /\ [][NextClean]_vars

\* The dead-letter list over days: tasks expire into it and the cleaner runs.
NextAgeing ==
    \/ \E i \in Ids : ApiPushDownloadTask(i, 0)
    \/ ClearExpiredTasks
    \/ RunCleanup
    \/ TickQueue

SpecAgeing == Init /\ [][NextAgeing]_vars

(* QueueManager.push_download_task(article_data), its return value.        *)

\* article_data as a caller may pass it: the keys id, url and priority may
\* be missing.
ArticleData ==
    [id : Ids, has_id : BOOLEAN, has_url : BOOLEAN, has_priority : BOOLEAN,
     priority : Priorities]

\* article_data['id'], article_data['url']: KeyError on a missing key.
KeyError(a) == ~a.has_id \/ ~a.has_url

\* article_data.get('priority', 0).
ArticlePriority(a) == IF a.has_priority THEN a.priority ELSE 0

\* What ZADD may answer for the member: 1 for a new member, 0 for a member
\* that is in the set already, or an error of the connection.
ZAddAnswers(q, task) ==
    {"raises"}
        \cup (IF CanAdd(q, task) THEN {"added"} ELSE {})
        \cup (IF \E n \in 1..MaxCopies : [task EXCEPT !.copy = n] \in q
              THEN {"present"} ELSE {})

\* The value returned: the KeyError and the error of ZADD are caught by the
\* except branch, which returns False; a falsy result returns False.
PushReturnedLoose(a, answer) ==
    IF KeyError(a) THEN "False"
    ELSE IF answer = "raises" THEN "False" ELSE "True"
PushReturned(a, answer) ==
    IF KeyError(a) THEN "False"
    ELSE IF answer = "added" THEN "True" ELSE "False"

PushDownloadTaskCall(a) ==
    /\ pushRet.n < MaxCalls
    /\ LET task == DownloadTask(a.id, ArticlePriority(a), now)
       IN IF KeyError(a)
          THEN /\ pushRet' = [n |-> pushRet.n + 1, id |-> a.id,
                              has_id |-> a.has_id, has_url |-> a.has_url,
                              has_priority |-> a.has_priority,
                              priority |-> a.priority, answer |-> "none",
                              ret |-> PushReturned(a, "none")]
               /\ UNCHANGED <<downloadQ, pushed>>
          ELSE \E answer \in ZAddAnswers(downloadQ, task) :
               /\ pushRet' = [n |-> pushRet.n + 1, id |-> a.id,
                              has_id |-> a.has_id, has_url |-> a.has_url,
                              has_priority |-> a.has_priority,
                              priority |-> a.priority, answer |-> answer,
                              ret |-> PushReturned(a, answer)]
               /\ downloadQ' = IF answer = "added"
                               THEN ZAdd(downloadQ, task) ELSE downloadQ
               /\ pushed' = IF answer = "added"
                            THEN [pushed EXCEPT ![a.id] = @ + 1] ELSE pushed
    /\ UNCHANGED <<storeVars, parseQ, failedQ, fileVars, pc, run, workVars,
                   clockVars, statVars, timeVars, superVars, schedVars,
                   last_cleanup, successful, failed>>

\* push_download_task called with any article_data, over time.
NextPush ==
    \/ \E a \in ArticleData : PushDownloadTaskCall(a)
    \/ TickQueue

SpecPush == Init /\ [][NextPush]_vars

(* run_download_worker when the calls made while handling a task fail.     *)

\* _handle_download_failure when push_download_task or update_article_status
\* returns False: neither return value is looked at.
HandleDownloadFailureUnder(task, table, pushOk, storeOk) ==
    IF task.retry_count < MAX_DOWNLOAD_RETRIES
    THEN /\ IF pushOk
            THEN /\ CanAdd(downloadQ, DownloadTask(task.id, task.priority, now))
                 /\ downloadQ' = ZAdd(downloadQ,
                                      DownloadTask(task.id, task.priority, now))
            ELSE downloadQ' = downloadQ
         /\ rows' = table
    ELSE /\ rows' = IF storeOk
                    THEN [table EXCEPT ![task.id] =
                            UpdateStatus(@, "download_status", "failed",
                                         "download")]
                    ELSE table
         /\ downloadQ' = downloadQ

\* The body of the batch loop for the popped task, as in ProcessTask, with
\* the answers of the queue and of the store.
ProcessTaskUnder(w, fetched, pushOk, storeOk) ==
    /\ w \in DownloadWorkers
    /\ wpc[w] = "download"
    /\ html' = IF fetched THEN html \cup {wtask[w].id} ELSE html
    /\ mtime' = IF fetched
                THEN [mtime EXCEPT ![<<"html", wtask[w].id>>] = now]
                ELSE mtime
    /\ wres' = [wres EXCEPT ![w] = IF fetched THEN "success" ELSE "failure"]
    /\ HandleDownloadFailureUnder(wtask[w],
           IF fetched THEN [rows EXCEPT ![wtask[w].id] = UpdatePaths(@)]
                      ELSE rows,
           pushOk, storeOk)
    /\ wpc' = [wpc EXCEPT ![w] = "idle"]
    /\ wtask' = [wtask EXCEPT ![w] = NoTask]
    /\ UNCHANGED <<dupSet, dupExpire, addedAt, parseQ, failedQ, text, discVars,
                   offset, attempts, clockVars, svcVars>>

\* One article discovered and downloaded while the queue and the store may
\* fail the worker.
NextLoss ==
    \/ StartRun("sched", PipelineFeed, TRUE)
    \/ CheckDuplicate("sched")
    \/ AddDedupKey("sched")
    \/ CheckExisting("sched")
    \/ CreateRow("sched", TRUE)
    \/ PushDownload("sched", TRUE)
    \/ MarkDiscovered("sched")
    \/ FinishRun("sched")
    \/ ReturnRun("sched")
    \/ PopDownloadTask("dl")
    \/ \E fetched, pushOk, storeOk \in BOOLEAN :
         ProcessTaskUnder("dl", fetched, pushOk, storeOk)
    \/ ClearExpiredTasks
    \/ TickQueue

SpecLoss == Init /\ [][NextLoss]_vars

\* _parse_publish_time over the raw articles, at different times.
NextTime ==
    \/ \E a \in Articles : ParseArticle(a)
    \/ Tick(DayStep)

SpecTime == Init /\ [][NextTime]_vars

\* Discovery runs one after the other in which the row creation and the
\* push of the download task may fail.
NextLossy ==
    \/ \E f \in Feeds(1) : StartRun("sched", f, TRUE)
    \/ \E f \in Feeds(1) : StartForce("sched", f)
    \/ CheckDuplicate("sched")
    \/ AddDedupKey("sched")
    \/ CheckExisting("sched")
    \/ \E ok \in BOOLEAN : CreateRow("sched", ok)
    \/ \E ok \in BOOLEAN : PushDownload("sched", ok)
    \/ MarkDiscovered("sched")
    \/ FinishRun("sched")
    \/ ReturnRun("sched")
    \/ TickDedup

SpecLossy == Init /\ [][NextLossy]_vars

-----------------------------------------------------------------------------
(* Claims about discovery *)

FeedIds(f) == { f[j].id : j \in 1..Len(f) } \ {""}

\* C1: discovery is idempotent. Over discovery runs (run_discovery and
\* force_discovery) that follow one another, no id ever has more than one
\* download task pushed for it, an id that was fed has exactly one row and
\* one task, the queue holds one task per discovered id, and a finished run
\* reports as new exactly the ids of its feed that no earlier run had brought
\* in: a second run over the same feed reports 0.
C1_IdempotentDiscovery ==
    /\ \A i \in Ids : pushed[i] <= 1
    /\ \A i \in Ids : pushed[i] = 1 => rows[i] # NoRow
    /\ Cardinality(downloadQ) = Cardinality({i \in Ids : pushed[i] = 1})
    /\ \A r \in Runners :
         pc[r] = "done" =>
           /\ run[r].new = Cardinality(FeedIds(run[r].feed) \ run[r].seen)
           /\ \A i \in FeedIds(run[r].feed) :
                rows[i] # NoRow /\ pushed[i] = 1

\* C1 witness: a run over a feed whose article an earlier run had brought in
\* has finished, reporting no new article and a duplicate.
C1_Witness ==
    /\ pc["sched"] = "done"
    /\ run["sched"].kind = "run"
    /\ run["sched"].new = 0
    /\ run["sched"].dup >= 1
    /\ FeedIds(run["sched"].feed) # {}
    /\ FeedIds(run["sched"].feed) \subseteq run["sched"].seen

PastDedup == {"dbget", "create", "push", "mark_ok", "mark_fail"}

\* C2: the dedup check-and-add is atomic. Two concurrent runs never both
\* hold the answer 'not a duplicate' of is_duplicate for the same key.
C2_AtomicCheckAndAdd ==
    \A r1, r2 \in Runners :
      (r1 # r2 /\ pc[r1] \in PastDedup /\ pc[r2] \in PastDedup)
        => DedupKey(Item(r1)) # DedupKey(Item(r2))

\* C3: dedup correctness. A call of is_duplicate for a key that an earlier
\* call added less than the 30-day expiry ago reports the key as a duplicate,
\* whatever was added or checked in between.
C3_DedupCorrect ==
    [][ \A r \in Runners :
          ( /\ pc[r] = "next"
            /\ run[r].i <= Len(run[r].feed)
            /\ Valid(Item(r))
            /\ addedAt[DedupKey(Item(r))] >= 0
            /\ now < addedAt[DedupKey(Item(r))] + DEDUP_TTL
            /\ <<pc[r], run[r]>>' # <<pc[r], run[r]>> )
          => (pc'[r] = "next" /\ run'[r].res = "dup_set") ]_vars

\* C3 witness: a key was reported as a duplicate after time has passed and
\* while another key is in the set.
C3_Witness ==
    \E r \in Runners :
      /\ run[r].res = "dup_set"
      /\ now > 0
      /\ Cardinality(dupSet) >= 2

-----------------------------------------------------------------------------
(* Claims about the queues and the download worker *)

\* The worker pops a task in this step / ends the handling of its task.
PopStep(w) == wpc[w] = "idle" /\ wpc'[w] = "download"
HandledStep(w) == wpc[w] = "download" /\ wpc'[w] = "idle"

\* C4: retry bound. The download tasks of an article are popped and attempted
\* at most MAX_DOWNLOAD_RETRIES + 1 times.
C4_RetryBound ==
    \A i \in Ids : attempts[i] <= MAX_DOWNLOAD_RETRIES + 1

\* C5: when the handling of a download task whose retry_count has reached
\* MAX_DOWNLOAD_RETRIES fails, the task is pushed to failed_tasks and the row
\* gets download_status failed and the error message.
C5_FailureAtThreshold ==
    [][ \A w \in Workers :
          (HandledStep(w) /\ wtask[w].retry_count >= MAX_DOWNLOAD_RETRIES)
          => /\ \E f \in failedQ' \ failedQ : f.id = wtask[w].id
             /\ rows'[wtask[w].id].download_status = "failed"
             /\ rows'[wtask[w].id].error_message # "" ]_vars

\* C6: when the handling of a download task whose retry_count is below
\* MAX_DOWNLOAD_RETRIES fails, the task pushed again carries retry_count + 1
\* and a score in the future.
C6_RetryUnderThreshold ==
    [][ \A w \in Workers :
          (HandledStep(w) /\ wtask[w].retry_count < MAX_DOWNLOAD_RETRIES)
          => \E e \in downloadQ' \ downloadQ :
                /\ e.id = wtask[w].id
                /\ e.retry_count = wtask[w].retry_count + 1
                /\ e.score > now ]_vars

\* C7: every task held in download_tasks or parse_tasks has
\* retry_count <= max_retries.
C7_QueuedRetryCount ==
    \A e \in downloadQ \cup parseQ : e.retry_count <= DEFAULT_MAX_RETRIES

\* C7 witness: a queued task that has used up all its retries.
C7_Witness ==
    \E e \in downloadQ : e.retry_count = DEFAULT_MAX_RETRIES

\* C8: failed_tasks is a deadletter. Every entry has exceeded the retry limit
\* and the task it records is not queued for another attempt.
C8_Deadletter ==
    \A f \in failedQ :
      /\ f.retry_count > DEFAULT_MAX_RETRIES
      /\ ~ \E e \in downloadQ \cup parseQ :
             e.id = f.id /\ e.created = f.created /\ e.copy = f.copy

C10_PopOnlyEligible ==
    [][ \A w \in Workers : PopStep(w) => wtask'[w].score <= now ]_vars

\* C11: backoff monotonicity. Every task queued again after a failure has
\* a score at least the score of the attempt that failed plus
\* min(60 * 2^(n-1), 3600), n being the number of the retry; on the
\* download-failure path and on the push_failed_task/_retry_task path.
C11_BackoffMonotone ==
    [][ /\ \A w \in Workers :
             (HandledStep(w) /\ wtask[w].retry_count < MAX_DOWNLOAD_RETRIES)
             => \A e \in downloadQ' \ downloadQ :
                   e.id = wtask[w].id
                   => e.score >= wtask[w].score
                                   + RetryDelay(wtask[w].retry_count)
        /\ \A e \in (downloadQ' \ downloadQ) \cup (parseQ' \ parseQ) :
             e.retry_count >= 1
             => \A o \in (downloadQ \ downloadQ') \cup (parseQ \ parseQ') :
                   (o.id = e.id /\ o.created = e.created /\ o.copy = e.copy)
                   => e.score >= o.score + RetryDelay(o.retry_count)
      ]_vars

\* C12: every successful _process_download_task is followed by
\* download_status = completed for the article, with html/{id}.html on disk,
\* and by exactly one parse task for the id pushed to parse_tasks.
C12_DownloadCompletes ==
    [][ \A w \in Workers :
          (HandledStep(w) /\ wres'[w] = "success")
          => /\ rows'[wtask[w].id].download_status = "completed"
             /\ wtask[w].id \in html'
             /\ Cardinality({ e \in parseQ' \ parseQ : e.id = wtask[w].id }) = 1
      ]_vars

\* C14: a download task is popped only when the article's row has
\* discovery_status = completed.
C14_StageOrder ==
    [][ \A w \in Workers :
          PopStep(w) => rows[wtask'[w].id].discovery_status = "completed"
      ]_vars

\* C18: a download that fails twice and succeeds at the third attempt ends
\* with download_status = completed and the row's retry_count = 2.
C18_TransientFailure ==
    [][ \A w \in Workers :
          ( /\ HandledStep(w)
            /\ attempts[wtask[w].id] = 3
            /\ wtask[w].id \notin html
            /\ wres'[w] = "success" )
          => /\ rows'[wtask[w].id].download_status = "completed"
             /\ rows'[wtask[w].id].retry_count = 2
      ]_vars

\* C13: artifact-state coherence. In every state download_status =
\* completed implies html/{id}.html exists and parse_status = completed
\* implies text/{id}.txt exists, also after cleanup_old_files has run.
C13_ArtifactCoherence ==
    \A i \in Ids :
      rows[i] # NoRow =>
        /\ rows[i].download_status = "completed" => i \in html
        /\ rows[i].parse_status = "completed" => i \in text

StatusFields == {"discovery_status", "download_status", "parse_status"}

\* C15: parse_status becomes completed only in a row whose download_status
\* is completed, download_status only in a row whose discovery_status is
\* completed, and a completed status never changes again.
C15_PrerequisiteCompleted ==
    [][ \A i \in Ids :
          (rows[i] # NoRow /\ rows'[i] # NoRow) =>
            /\ ( /\ rows[i].parse_status # "completed"
                 /\ rows'[i].parse_status = "completed" )
               => rows[i].download_status = "completed"
            /\ ( /\ rows[i].download_status # "completed"
                 /\ rows'[i].download_status = "completed" )
               => rows[i].discovery_status = "completed"
            /\ \A f \in StatusFields :
                 rows[i][f] = "completed" => rows'[i][f] = "completed"
      ]_vars

\* C16: monotone stage progression. When discovered_at, downloaded_at and
\* parsed_at of a row are all set, discovered_at <= downloaded_at <= parsed_at.
C16_MonotoneStamps ==
    \A i \in Ids :
      ( /\ rows[i] # NoRow
        /\ rows[i].discovered_at >= 0
        /\ rows[i].downloaded_at >= 0
        /\ rows[i].parsed_at >= 0 )
      => /\ rows[i].discovered_at <= rows[i].downloaded_at
         /\ rows[i].downloaded_at <= rows[i].parsed_at

\* C17: happy path. With one valid new entry and every operation succeeding,
\* once discovery, a download and the extraction of the article are over the
\* row has all four statuses completed and the html and text files exist.
C17_HappyPath ==
    ( /\ "a1" \in text
      /\ \A r \in Runners : pc[r] = "idle"
      /\ \A w \in Workers : wpc[w] = "idle" )
    => /\ rows["a1"] # NoRow
       /\ rows["a1"].discovery_status = "completed"
       /\ rows["a1"].download_status = "completed"
       /\ rows["a1"].parse_status = "completed"
       /\ rows["a1"].storage_status = "completed"
       /\ "a1" \in html

\* C19: file-discovery fallback. With parse_tasks empty, an HTML file that
\* has no text file eventually gets one, however many HTML files have text
\* already and whatever the order of the directory listing.
C19_FilesReconciled ==
    \A i \in Ids :
      (i \in html /\ i \notin text /\ parseQ = {}) ~> (i \in text)

\* The extraction worker ends the handling of its task.
ExtractedStep(w) == wpc[w] = "extract" /\ wpc'[w] = "loop"

\* C20: a task popped from parse_tasks whose processing fails is pushed to
\* parse_tasks again with retry_count + 1 while under
\* MAX_EXTRACTION_RETRIES; at the limit it is pushed to failed_tasks and
\* parse_status is set to failed.
C20_ExtractionRetry ==
    [][ \A w \in Workers :
          ( /\ ExtractedStep(w)
            /\ wtask[w].source = "download"
            /\ wres'[w] = "failure" )
          => IF wtask[w].retry_count < MAX_EXTRACTION_RETRIES
             THEN \E e \in parseQ' \ parseQ :
                     /\ e.id = wtask[w].id
                     /\ e.retry_count = wtask[w].retry_count + 1
             ELSE /\ \E f \in failedQ' \ failedQ : f.id = wtask[w].id
                  /\ rows'[wtask[w].id] # NoRow
                  /\ rows'[wtask[w].id].parse_status = "failed"
      ]_vars

\* C22: at-most-once delivery. A pop hands one member of the queue to one
\* worker and the member is out of the queue in the same step, so that no
\* other worker can be handed it unless it is pushed again.
C22_AtMostOnce ==
    [][ \A w \in Workers :
          PopStep(w)
          => /\ wtask'[w] \in downloadQ
             /\ wtask'[w] \notin downloadQ'
             /\ Cardinality(downloadQ') = Cardinality(downloadQ) - 1
             /\ \A v \in Workers \ {w} : wtask'[v] = wtask[v]
      ]_vars

\* C22 witness: two workers hold a task each while a third task waits.
C22_Witness ==
    /\ wpc["dl"] = "download"
    /\ wpc["dl2"] = "download"
    /\ downloadQ # {}

\* C26: a run whose health check fails goes straight to its end: no row,
\* no queue and no dedup key changes, and it returns errors >= 1 with
\* discovered = new_articles = duplicates = 0.
C26_AbortOnDegradedHealth ==
    [][ \A r \in Runners :
          (pc[r] = "idle" /\ pc'[r] # "idle" /\ ~run'[r].healthy)
          => /\ pc'[r] = "done"
             /\ run'[r].err >= 1
             /\ run'[r].discovered = 0
             /\ run'[r].new = 0
             /\ run'[r].dup = 0
             /\ UNCHANGED <<rows, downloadQ, dupSet, dupExpire>>
      ]_vars

\* C26 witness: a run aborted by the health check has returned while rows
\* and tasks of an earlier run exist.
C26_Witness ==
    \E r \in Runners :
      /\ pc[r] = "done"
      /\ ~run[r].healthy
      /\ run[r].err = 1
      /\ downloadQ # {}

C29_NoContention ==
    [][ \A w \in Workers :
          (ExtractedStep(w) /\ wres'[w] = "success")
          => \A d \in DownloadWorkers :
               ~(wpc[d] = "download" /\ wtask[d].id = wtask[w].id)
      ]_vars

\* C21: after the download worker was killed with the task of a1 in hand
\* and the HTML file written, the article is processed again (a download
\* worker holds its task once more) or its download_status reaches
\* completed.
C21_CrashRecovery ==
    ( /\ wres["dl"] = "killed"
      /\ "a1" \in html
      /\ attempts["a1"] < MaxAttempts )
    ~> ( \/ \E w \in DownloadWorkers :
              wpc[w] = "download" /\ wtask[w].id = "a1"
         \/ rows["a1"] # NoRow /\ rows["a1"].download_status = "completed" )

\* C28: the day's discovered_count is the sum of the new_articles of the
\* discovery runs of that date: a run that ends adds its new_articles to the
\* value stored for the date (0 when the date has no row yet).
C28_StatsAccumulate ==
    [][ \A r \in Runners :
          (pc[r] = "next" /\ pc'[r] = "done" /\ run[r].kind = "run")
          => /\ statsTable'.date = Today
             /\ statsTable'.discovered_count =
                  (IF statsTable.date = Today
                   THEN statsTable.discovered_count ELSE 0) + run[r].new
      ]_vars

\* C30: for an integer publish_time v the result is floor(v / 1000) when
\* v > 10^10 and v otherwise; when no field is present or parseable it is
\* the current time in whole seconds.
C30_PublishTime ==
    parsed # Absent
    => LET v == article["publish_time"]
           u == article["timestamp"]
       IN /\ v.type = "int"
             => parsed = IF v.k > MS_THRESHOLD
                            \/ (v.k = MS_THRESHOLD /\ v.r > 0)
                         THEN Num(v.k \div 1000, v.k % 1000)
                         ELSE v
          /\ (v \in {Absent, BadString} /\ u \in {Absent, BadString})
             => parsed = NowSeconds(now)

\* C23: at most one worker_loop thread of the download service is running
\* a batch at any time.
C23_SingleLoop ==
    Cardinality({ w \in DownloadWorkers : loop[w] = "batch" }) <= 1

\* C24: once stop_worker has cleared is_running, the loop pops no further
\* task: a pop is only taken while is_running is set.
C24_NoPopAfterStop ==
    [][ \A w \in DownloadWorkers : PopStep(w) => is_running ]_vars

\* C25: while the scheduler is running exactly one periodic job is
\* registered, after stop() none is, and each time the job falls due
\* exactly one scheduled discovery run begins.
C25_PeriodicDiscovery ==
    /\ sched_running => Cardinality(jobs) = 1
    /\ ~sched_running => jobs = {}
    /\ \A j \in JobIds : fired[j] <= 1

\* C31: a failed task queued again as a retry has the score
\* now + min(60 * 2^n, 3600), n being the number of failures the task had
\* before this one (retry_count - 1 of the task queued): the first retry
\* waits 60 s, the second 120 s.
C31_RetryScore ==
    [][ \A e \in (downloadQ' \ downloadQ) \cup (parseQ' \ parseQ) :
          e.retry_count >= 1
          => e.score = now + Min(BACKOFF_BASE * Pow2(e.retry_count - 1),
                                 BACKOFF_CAP)
      ]_vars

\* C37: clear_expired_tasks leaves in its queue, with its score, every task
\* that was pushed less than 24 hours ago, whatever its priority.
C37_ExpiryByAge ==
    [][ failedQ' # failedQ
        => \A e \in downloadQ \cup parseQ :
             (e.retry_count = 0 /\ e.created > now - EXPIRED_AGE)
             => IF e.source = "discovery" THEN e \in downloadQ'
                                          ELSE e \in parseQ'
      ]_vars

\* C39: after a run_discovery whose health check passed, every fetched
\* article is counted once: discovered = new_articles + duplicates + errors.
C39_RunAccounting ==
    \A r \in Runners :
      (pc[r] = "done" /\ run[r].kind = "run" /\ run[r].healthy)
      => run[r].discovered = run[r].new + run[r].dup + run[r].err

\* C40: the dedup expiry belongs to the set: it is always 30 days after
\* the latest addition of a key, every key added since the set was created
\* is still a member however old it is, and the only way members leave is
\* the expiry of the set, which forgets all of them at once.
C40_SetExpiry ==
    /\ [] ( /\ dupSet = { k \in Keys : addedAt[k] >= 0 }
            /\ dupSet # {}
               => \E k \in dupSet :
                    /\ dupExpire = addedAt[k] + DEDUP_TTL
                    /\ \A l \in dupSet : addedAt[l] <= addedAt[k]
            /\ dupSet # {} => now < dupExpire )
    /\ [][ dupSet' # dupSet
           => \/ dupSet \subseteq dupSet' /\ dupExpire' = now + DEDUP_TTL
              \/ dupSet' = {} /\ now' >= dupExpire ]_vars

\* C40 witness: a key added 30 days ago or more is reported as a duplicate
\* by the run under way, a later addition having moved the expiry.
C40_Witness ==
    /\ pc["sched"] = "next"
    /\ run["sched"].res = "dup_set"
    /\ run["sched"].i > 1
    /\ LET k == DedupKey(run["sched"].feed[run["sched"].i - 1])
       IN /\ k \in dupSet
          /\ addedAt[k] + DEDUP_TTL <= now
          /\ dupExpire > now

\* C36: the dedup key is recorded before the row is created and the task
\* pushed, and only the expiry of the set removes it. A discovery run that
\* comes to an article whose key is in the set classifies it as a duplicate
\* and creates no row and pushes no task for it, whether or not the attempt
\* that recorded the key went on to fail; a task is pushed only in the call
\* that has just recorded the key.
C36_MarkedIsDuplicate ==
    [][ /\ \A r \in Runners :
             /\ ( /\ pc[r] = "next"
                  /\ run[r].i <= Len(run[r].feed)
                  /\ Valid(Item(r))
                  /\ DedupKey(Item(r)) \in dupSet
                  /\ <<pc'[r], run'[r]>> # <<pc[r], run[r]>> )
                => /\ pc'[r] = "next"
                   /\ run'[r].res = "dup_set"
                   /\ run'[r].i = run[r].i + 1
                   /\ UNCHANGED <<rows, downloadQ, pushed, dupSet>>
             /\ (pc[r] \in {"create", "push"} /\ pc'[r] # pc[r])
                => /\ DedupKey(Item(r)) \in dupSet
                   /\ addedAt[DedupKey(Item(r))] = now
        /\ \A i \in Ids :
             pushed'[i] > pushed[i]
             => \E r \in Runners : pc[r] = "push" /\ Item(r).id = i
        /\ dupSet \subseteq dupSet' \/ (dupSet' = {} /\ now' >= dupExpire)
      ]_vars

\* C36 witness: the attempt that recorded the key of a1 failed (no row, or
\* a row marked failed, and no task), and a later run has just classified
\* a1 as a duplicate.
C36_Witness ==
    /\ pc["sched"] = "next"
    /\ run["sched"].res = "dup_set"
    /\ run["sched"].i > 1
    /\ LET item == run["sched"].feed[run["sched"].i - 1]
       IN /\ DedupKey(item) \in dupSet
          /\ pushed[item.id] = 0
          /\ downloadQ = {}
          /\ rows[item.id] # NoRow => rows[item.id].discovery_status = "failed"

\* A step of run_cleanup.
CleanupStep == last_cleanup' # last_cleanup

\* C34: after clean_download_queue, download_tasks holds no task whose id
\* has an HTML file, and every task whose id has none is still there with
\* its score.
C34_QueueReconciled ==
    [][ CleanupStep
        => /\ \A e \in downloadQ' : e.id \notin html'
           /\ \A e \in downloadQ : e.id \notin html => e \in downloadQ'
      ]_vars

\* C34 witness: the cleanup has just run and has left in the queue a task
\* without HTML file while a file of another article is on disk.
C34_Witness ==
    /\ last_cleanup.time = now
    /\ html # {}
    /\ \E e \in downloadQ : e.id \notin html
    /\ \A e \in downloadQ : e.id \notin html
    /\ \E i \in html : pushed[i] > 1

\* C35: after run_cleanup, failed_tasks holds no entry recorded as failed
\* more than 24 hours earlier.
C35_DeadletterAgeing ==
    [][ CleanupStep
        => \A f \in failedQ' : f.failed_at >= now - EXPIRED_AGE
      ]_vars

\* C32: push_download_task returns True exactly when ZADD reports a new
\* member, and False (never an exception) when ZADD reports none or raises
\* or when the article lacks id or url; the queue gains a member exactly on
\* True, and that member has the article's id, source 'discovery' and the
\* article's priority, 0 when it has none.
C32_PushReturn ==
    [][ pushRet' # pushRet
        => /\ pushRet'.ret \in {"True", "False"}
           /\ pushRet'.ret = "True"
                  <=> /\ pushRet'.has_id
                      /\ pushRet'.has_url
                      /\ pushRet'.answer = "added"
           /\ pushRet'.ret = "True" <=> downloadQ' # downloadQ
           /\ downloadQ \subseteq downloadQ'
           /\ \A e \in downloadQ' \ downloadQ :
                  /\ e.id = pushRet'.id
                  /\ e.source = "discovery"
                  /\ e.priority = IF pushRet'.has_priority
                                  THEN pushRet'.priority ELSE 0
      ]_vars

\* A call without a priority has returned True and its task is queued with
\* priority 0, after an earlier call.
C32_Witness ==
    /\ pushRet.n > 1
    /\ pushRet.ret = "True"
    /\ ~pushRet.has_priority
    /\ pushRet.priority # 0
    /\ \E e \in downloadQ : e.id = pushRet.id /\ e.priority = 0

\* C33: a batch that has returned reports counts with
\* processed = successful + failed and processed <= max_tasks.
C33_BatchCounts ==
    \A w \in DownloadWorkers :
        loop[w] = "sleep"
            => /\ processed[w] = successful[w] + failed[w]
               /\ processed[w] <= BatchSize

\* C38: when the handling of a popped task ends, the row's download_status
\* is completed, or the task is in download_tasks again, or the row's
\* download_status is failed.
C38_NoSilentLoss ==
    [][ \A w \in DownloadWorkers :
          (wpc[w] = "download" /\ wpc'[w] = "idle")
          => \/ /\ rows'[wtask[w].id] # NoRow
                /\ rows'[wtask[w].id].download_status \in {"completed", "failed"}
             \/ \E e \in downloadQ' : e.id = wtask[w].id
      ]_vars

====
